---- MODULE Spec2Model ----
(***************************************************************************)
(* Model of the data-preparation and Pareto-front pipeline of the MOO      *)
(* dashboard (weis/visualization/moo_dashboard/utils/data_processing.py):  *)
(* find_pareto_front and prepare_dataframe_for_splom.                      *)
(*                                                                         *)
(* Floats are modelled by integers plus the distinguished value NaN; every *)
(* comparison goes through FGt/FLt/FLe, which are false as soon as one     *)
(* side is NaN (IEEE semantics).  Row positions are 0-based in the values  *)
(* the program returns and 1-based inside TLA+ sequences.                  *)
(***************************************************************************)
EXTENDS Integers, Sequences, FiniteSets, TLC

VARIABLES
    \* ---- find_pareto_front(objectives, df, objective_senses)
    objectives,        \* list of objective column names
    obj_df,            \* the table passed as df: [nrows, col]
    objective_senses,  \* None or a dict name -> sense
    pareto_indices,    \* the returned list
    pf_pc,             \* "idle", "call" before the call, "done" after it,
                       \* "raised" when the call ended with an exception
    \* ---- prepare_dataframe_for_splom(df, selected_vars, yaml_data)
    df,                  \* the source table: [nrows, col], col: name -> cells
    selected_vars,       \* list of selection tokens
    yaml_data,           \* None or the three groups of the configuration
    processed_vars,      \* insertion-ordered dict: list of [base, type, vars]
    simplified_df,       \* the frame under construction: [index, cols]
    dimensions,          \* list of [label, values]
    variable_categories, \* dict label -> category
    idx,                 \* position of the loop of line 182 in processed_vars
    row,                 \* position of the loop of line 207 in the column
    min_values,          \* the list min_values of the array being processed
    max_values,          \* the list max_values of the array being processed
    pc,                  \* "idle", "parse", "loop", "rows", "done"
    ret,                 \* "pending", "empty" (None, [], {}), "ok", "raised"
    \* ---- a caller that repeats a call with the same arguments
    calls,               \* number of repeated calls made
    \* ---- the stores and component properties of the dashboard
    csv_df,                   \* store csv-df: None or the loaded table
    yaml_df,                  \* store yaml-df: None or the configuration
    selected_channels,        \* store selected-channels: list of tokens
    selected_iteration,       \* store selected-iteration
    pareto_front_enabled,     \* store pareto-front-enabled
    objective_senses_store,   \* store objective-senses
    diagonal_visible,         \* store diagonal-visible
    click_data,               \* splom.clickData: None or the clicked point
    trigger,                  \* the input whose change awaits update_splom
    splom_figure,             \* splom.figure, as update_splom returned it
    simplified_df_store,      \* store simplified-df
    dimensions_data,          \* store dimensions-data
    variable_categories_data, \* store variable-categories-data
    pf_called,                \* update_splom called find_pareto_front
    download,                 \* outcome of the last download_splom_html
    events                    \* number of things the user has done

pf_vars == <<objectives, obj_df, objective_senses, pareto_indices, pf_pc>>

in_vars == <<df, selected_vars, yaml_data>>

splom_vars == <<df, selected_vars, yaml_data, processed_vars, simplified_df,
                dimensions, variable_categories, idx, row, min_values,
                max_values, pc, ret>>

ui_vars == <<csv_df, yaml_df, selected_channels, selected_iteration,
             pareto_front_enabled, objective_senses_store, diagonal_visible,
             click_data, trigger, splom_figure, simplified_df_store,
             dimensions_data, variable_categories_data, pf_called, download,
             events>>

vars == <<pf_vars, splom_vars, calls, ui_vars>>

-----------------------------------------------------------------------------
(* Bounds of the model *)

MaxRows == 3
MaxVal == 2
MaxCells == 2
MaxCalls == 1
MaxSelected == 3
MaxEvents == 6

-----------------------------------------------------------------------------
(* Floats *)

NaN == 1000000

IsNaN(x) == x = NaN

\* unary minus on a float: -nan is nan
Negate(x) == IF IsNaN(x) THEN NaN ELSE 0 - x

\* Python's a > b on floats
FGt(a, b) == ~IsNaN(a) /\ ~IsNaN(b) /\ a > b

\* Python's a < b on floats
FLt(a, b) == ~IsNaN(a) /\ ~IsNaN(b) /\ a < b

\* Python's a <= b on floats
FLe(a, b) == ~IsNaN(a) /\ ~IsNaN(b) /\ a <= b

-----------------------------------------------------------------------------
(* find_pareto_front *)

\* Python's None for the objective_senses argument, and a dict
NoSenses == [none |-> TRUE, d |-> [n \in {} |-> "minimize"]]

SenseDict(d) == [none |-> FALSE, d |-> d]

\* str.lower() on the sense strings that occur
Lower(s) == IF s \in {"MAXIMIZE", "Maximize"} THEN "maximize"
            ELSE IF s \in {"MINIMIZE", "Minimize"} THEN "minimize"
            ELSE s

\* `if objective_senses:` : neither None nor an empty dict
SensesTruthy(senses) == ~senses.none /\ DOMAIN senses.d # {}

\* SenseOf with maximize for a name the mapping omits
SenseOfDefaultMaximize(senses, obj_name) ==
    Lower(IF obj_name \in DOMAIN senses.d THEN senses.d[obj_name] ELSE "maximize")

\* objective_senses.get(obj_name, 'minimize').lower()
SenseOf(senses, obj_name) ==
    Lower(IF obj_name \in DOMAIN senses.d THEN senses.d[obj_name] ELSE "minimize")

\* NegatedColumn with the sense compared as it is given, without lower()
NegatedColumnCaseSensitive(objs, senses, k) ==
    /\ SensesTruthy(senses)
    /\ objs[k] \in DOMAIN senses.d
    /\ senses.d[objs[k]] = "maximize"

\* the k-th column of obj_values is negated
NegatedColumn(objs, senses, k) ==
    SensesTruthy(senses) /\ SenseOf(senses, objs[k]) = "maximize"

\* obj_values after the normalisation loop: obj_values[i][k], i and k from 1
NormalizedValues(objs, tbl, senses) ==
    [i \in 1..tbl.nrows |->
        [k \in 1..Len(objs) |->
            IF NegatedColumn(objs, senses, k)
            THEN Negate(tbl.col[objs[k]][i])
            ELSE tbl.col[objs[k]][i]]]

\* DominanceLoop without better_at_least_one: a row equal to i dominates it
DominanceLoopTies(v, nobj, i, j, k, better_at_least_one) ==
    \A kk \in k..nobj : ~FGt(v[j][kk], v[i][kk])

\* DominanceLoop asking for a strictly smaller value in every objective
DominanceLoopAllStrict(v, nobj, i, j, k, better_at_least_one) ==
    \A kk \in k..nobj : FLt(v[j][kk], v[i][kk])

\* the loop over k for one pair (j, i), with its break; the value is
\* better_in_all and better_at_least_one after the loop
RECURSIVE DominanceLoop(_, _, _, _, _, _)
DominanceLoop(v, nobj, i, j, k, better_at_least_one) ==
    IF k > nobj THEN better_at_least_one
    ELSE IF FGt(v[j][k], v[i][k]) THEN FALSE
    ELSE DominanceLoop(v, nobj, i, j, k + 1,
                       better_at_least_one \/ FLt(v[j][k], v[i][k]))

\* the loop over j for one i: is_dominated
IsDominated(v, nobj, n, i) ==
    \E j \in 1..n : j # i /\ DominanceLoop(v, nobj, i, j, 1, FALSE)

\* ParetoLoop with every row put in front of the list instead of appended
RECURSIVE ParetoLoopDescending(_, _, _, _)
ParetoLoopDescending(v, nobj, n, i) ==
    IF i > n THEN <<>>
    ELSE ParetoLoopDescending(v, nobj, n, i + 1)
         \o (IF IsDominated(v, nobj, n, i) THEN <<>> ELSE <<i - 1>>)

\* the loop over i: pareto_indices, appended in ascending order (0-based)
RECURSIVE ParetoLoop(_, _, _, _)
ParetoLoop(v, nobj, n, i) ==
    IF i > n THEN <<>>
    ELSE (IF IsDominated(v, nobj, n, i) THEN <<>> ELSE <<i - 1>>)
         \o ParetoLoop(v, nobj, n, i + 1)

\* df.empty: no rows or no columns
DfEmpty(tbl) == tbl.nrows = 0 \/ DOMAIN tbl.col = {}

\* find_pareto_front without the early return of line 315
find_pareto_frontNoGuard(objs, tbl, senses) ==
    ParetoLoop(NormalizedValues(objs, tbl, senses), Len(objs), tbl.nrows, 1)

find_pareto_front(objs, tbl, senses) ==
    IF Len(objs) = 0 \/ DfEmpty(tbl) THEN <<>>
    ELSE ParetoLoop(NormalizedValues(objs, tbl, senses), Len(objs), tbl.nrows, 1)

\* line 322: past the early return, df[objectives] raises KeyError when an
\* objective is no column of the table
find_pareto_front_raises(objs, tbl, senses) ==
    /\ ~(Len(objs) = 0 \/ DfEmpty(tbl))
    /\ \E k \in 1..Len(objs) : objs[k] \notin DOMAIN tbl.col

\* TableAfterCall when the negation of line 330 is done on the table itself
TableAfterCallInPlace(objs, tbl, senses) ==
    [nrows |-> tbl.nrows,
     col |-> [c \in DOMAIN tbl.col |->
                 IF \E k \in 1..Len(objs) : objs[k] = c /\ NegatedColumn(objs, senses, k)
                 THEN [i \in 1..tbl.nrows |-> Negate(tbl.col[c][i])]
                 ELSE tbl.col[c]]]

\* the caller's table after a call: obj_values is a copy (line 322), so the
\* negation of line 330 does not reach df
TableAfterCall(objs, tbl, senses) == tbl

-----------------------------------------------------------------------------
(* Names.  A name is a sequence of atoms: the separators "_" and "." and     *)
(* words that contain neither, so that 'tower.mass_min' is                  *)
(* <<"tower", ".", "mass", "_", "min">>.                                    *)

MinSuffix == <<"_", "min">>
MaxSuffix == <<"_", "max">>

\* str.endswith
EndsWith(name, suffix) ==
    /\ Len(name) >= Len(suffix)
    /\ SubSeq(name, Len(name) - Len(suffix) + 1, Len(name)) = suffix

\* position of the last atom equal to sep, 0 when there is none
LastIndexOf(name, sep) ==
    IF \E p \in 1..Len(name) : name[p] = sep
    THEN CHOOSE p \in 1..Len(name) :
            /\ name[p] = sep
            /\ \A q \in (p + 1)..Len(name) : name[q] # sep
    ELSE 0

\* var.rsplit('_', 1)[0]
RsplitUnderscore(var) ==
    IF LastIndexOf(var, "_") = 0 THEN var
    ELSE SubSeq(var, 1, LastIndexOf(var, "_") - 1)

\* base_var.split('.')[-1]
LastSegment(name) == SubSeq(name, LastIndexOf(name, ".") + 1, Len(name))

-----------------------------------------------------------------------------
(* Cells of the table and their decoding (lines 207-241).                   *)
(* A string cell is a sequence of tokens: "[", "]", ",", " " (whitespace),  *)
(* a numeric literal, the literal None, or a bare word such as abc.         *)

Tok(t, v) == [t |-> t, v |-> v]
LB == Tok("[", 0)
RB == Tok("]", 0)
Comma == Tok(",", 0)
WS == Tok(" ", 0)
NumTok(v) == Tok("num", v)
NoneTok == Tok("None", 0)
WordTok == Tok("word", 0)

NumCell(v) == [kind |-> "num", num |-> v, elems |-> <<>>, text |-> <<>>]
ListCell(e) == [kind |-> "list", num |-> 0, elems |-> e, text |-> <<>>]
StrCell(t) == [kind |-> "str", num |-> 0, elems |-> <<>>, text |-> t]

IsAtomTok(tok) == tok.t \in {"num", "None", "word"}

IsWS(tok) == tok.t = " "

NotWS(tok) == ~IsWS(tok)

\* str.strip()
RECURSIVE LStrip(_)
LStrip(text) ==
    IF text # <<>> /\ IsWS(Head(text)) THEN LStrip(Tail(text)) ELSE text

RECURSIVE RStrip(_)
RStrip(text) ==
    IF text # <<>> /\ IsWS(text[Len(text)])
    THEN RStrip(SubSeq(text, 1, Len(text) - 1)) ELSE text

Strip(text) == RStrip(LStrip(text))

\* str.split(): the maximal runs of tokens that are not whitespace
RECURSIVE SplitWS(_, _)
SplitWS(text, cur) ==
    IF text = <<>> THEN (IF cur = <<>> THEN <<>> ELSE <<cur>>)
    ELSE IF IsWS(Head(text))
         THEN (IF cur = <<>> THEN <<>> ELSE <<cur>>) \o SplitWS(Tail(text), <<>>)
         ELSE SplitWS(Tail(text), Append(cur, Head(text)))

\* float(x) on a string: succeeds on one numeric literal, surrounded by
\* whitespace or not, and raises ValueError otherwise
FloatOfStr(text) ==
    LET t == Strip(text)
    IN IF Len(t) = 1 /\ t[1].t = "num"
       THEN [exc |-> "none", v |-> t[1].v]
       ELSE [exc |-> "ValueError", v |-> 0]

\* the items between the brackets of a list display: atoms separated by
\* commas, a trailing comma allowed
ListSyntaxOk(inner) ==
    \A p \in 1..Len(inner) :
        IF p % 2 = 1 THEN IsAtomTok(inner[p]) ELSE inner[p] = Comma

\* ast.literal_eval(val) on scalars and flat list displays.  exc is "none",
\* "SyntaxError" (not an expression) or "ValueError" (an expression with a
\* node that is no literal, such as a name); kind is "list", "num" or "None"
literal_eval(text) ==
    LET ts == SelectSeq(text, NotWS)
        inner == SubSeq(ts, 2, Len(ts) - 1)
        atoms == SelectSeq(inner, IsAtomTok)
        Res(e, k, it) == [exc |-> e, kind |-> k, items |-> it]
    IN IF Len(ts) = 1 /\ IsAtomTok(ts[1])
       THEN (IF ts[1].t = "word" THEN Res("ValueError", "num", <<>>)
             ELSE IF ts[1].t = "None" THEN Res("none", "None", <<>>)
             ELSE Res("none", "num", <<ts[1].v>>))
       ELSE IF Len(ts) >= 2 /\ ts[1] = LB /\ ts[Len(ts)] = RB /\ ListSyntaxOk(inner)
       THEN (IF \E p \in 1..Len(atoms) : atoms[p].t = "word"
             THEN Res("ValueError", "list", <<>>)
             ELSE Res("none", "list",
                      [p \in 1..Len(atoms) |->
                          IF atoms[p].t = "None" THEN NaN ELSE atoms[p].v]))
       ELSE Res("SyntaxError", "num", <<>>)

\* outcome of decoding: "arr" with the array, "skip" (the `continue` of line
\* 239) or "exc" (an exception that reaches the handler of line 273)
Decoded(a) == [st |-> "arr", arr |-> a]
DecodeSkip == [st |-> "skip", arr |-> <<>>]
DecodeExc == [st |-> "exc", arr |-> <<>>]

\* lines 221-239: the numpy-style parsing tried after literal_eval failed
NumpyStyle(text) ==
    LET val_clean == Strip(text)
        inner_str == Strip(SubSeq(val_clean, 2, Len(val_clean) - 1))
        str_values == SplitWS(inner_str, <<>>)
    IN IF val_clean # <<>> /\ val_clean[1] = LB /\ val_clean[Len(val_clean)] = RB
       THEN (IF inner_str # <<>>
             THEN (IF \E p \in 1..Len(str_values) :
                          FloatOfStr(str_values[p]).exc # "none"
                   THEN DecodeSkip
                   ELSE Decoded([p \in 1..Len(str_values) |->
                                    FloatOfStr(str_values[p]).v]))
             ELSE Decoded(<<>>))
       ELSE (IF FloatOfStr(text).exc # "none" THEN DecodeSkip
             ELSE Decoded(<<FloatOfStr(text).v>>))

\* lines 209-241: the array decoded from one cell
DecodeCell(val) ==
    IF val.kind = "list" THEN Decoded(val.elems)
    ELSE IF val.kind = "str"
    THEN LET parsed_val == literal_eval(val.text)
         IN IF parsed_val.exc \in {"ValueError", "SyntaxError"}
            THEN NumpyStyle(val.text)
            ELSE IF parsed_val.kind = "list" THEN Decoded(parsed_val.items)
            ELSE IF parsed_val.kind = "None" THEN DecodeExc
            ELSE Decoded(parsed_val.items)
    ELSE Decoded(<<val.num>>)

\* np.nanmin / np.nanmax of an array that is not all NaN
NotNaNs(arr) == { arr[p] : p \in { q \in 1..Len(arr) : ~IsNaN(arr[q]) } }

NanMin(arr) == CHOOSE m \in NotNaNs(arr) : \A x \in NotNaNs(arr) : m <= x

NanMax(arr) == CHOOSE m \in NotNaNs(arr) : \A x \in NotNaNs(arr) : m >= x

-----------------------------------------------------------------------------
(* The variable configuration (yaml_data), as process_yaml_config builds it *)

NegInf == -999999
PosInf == 999999

\* a configuration entry: None for a bare name, else a dict with the keys
\* 'lower' and 'upper' that were given
BareEntry == [isNone |-> TRUE, d |-> [k \in {} |-> 0]]
BoundEntry(d) == [isNone |-> FALSE, d |-> d]

NoYaml == [none |-> TRUE,
           objectives |-> [n \in {} |-> BareEntry],
           constraints |-> [n \in {} |-> BareEntry],
           design_vars |-> [n \in {} |-> BareEntry]]

Yaml(o, c, d) == [none |-> FALSE, objectives |-> o, constraints |-> c, design_vars |-> d]

\* get_category with the three groups looked up in the reverse order
get_categoryDesignFirst(yaml, var_name) ==
    IF ~yaml.none /\ var_name \in DOMAIN yaml.design_vars THEN "design_vars"
    ELSE IF ~yaml.none /\ var_name \in DOMAIN yaml.constraints THEN "constraints"
    ELSE IF ~yaml.none /\ var_name \in DOMAIN yaml.objectives THEN "objectives"
    ELSE "None"

\* get_category (lines 173-180)
get_category(yaml, var_name) ==
    IF ~yaml.none /\ var_name \in DOMAIN yaml.objectives THEN "objectives"
    ELSE IF ~yaml.none /\ var_name \in DOMAIN yaml.constraints THEN "constraints"
    ELSE IF ~yaml.none /\ var_name \in DOMAIN yaml.design_vars THEN "design_vars"
    ELSE "None"

\* dict.get(key, default) on a bounds dict
GetBound(entry, key, default) ==
    IF key \in DOMAIN entry.d THEN entry.d[key] ELSE default

\* line 250: the bounds check applies
HasConstraintEntry(yaml, base_var) ==
    ~yaml.none /\ base_var \in DOMAIN yaml.constraints

\* WithinBounds with the two bounds themselves excluded
WithinBoundsStrict(x, lower, upper) == IF lower < x /\ x < upper THEN x ELSE NaN

\* lines 255-263: a value within [lower, upper] is kept, another one is NaN
WithinBounds(x, lower, upper) == IF lower <= x /\ x <= upper THEN x ELSE NaN

\* lines 207-276, one pass of the loop body: what is appended to min_values
\* and max_values for the cell val, or nothing (act = "skip")
AppendBoth(mn, mx) == [act |-> "append", min |-> mn, max |-> mx]

ProcessValue(val, base_var, yaml) ==
    LET dec == DecodeCell(val)
        arr == dec.arr
    IN IF dec.st = "skip" THEN [act |-> "skip", min |-> NaN, max |-> NaN]
       ELSE IF dec.st = "exc" THEN AppendBoth(NaN, NaN)
       ELSE IF Len(arr) > 0 /\ NotNaNs(arr) # {}
       THEN (IF HasConstraintEntry(yaml, base_var)
             THEN (IF yaml.constraints[base_var].isNone
                   THEN AppendBoth(NaN, NaN)
                   ELSE LET lower == GetBound(yaml.constraints[base_var], "lower", NegInf)
                            upper == GetBound(yaml.constraints[base_var], "upper", PosInf)
                        IN AppendBoth(WithinBounds(NanMin(arr), lower, upper),
                                      WithinBounds(NanMax(arr), lower, upper)))
             ELSE AppendBoth(NanMin(arr), NanMax(arr)))
       ELSE AppendBoth(NaN, NaN)

-----------------------------------------------------------------------------
(* prepare_dataframe_for_splom *)

\* position of the key base_var in processed_vars, 0 when it is no key
KeyPos(pv, base_var) ==
    IF \E p \in 1..Len(pv) : pv[p].base = base_var
    THEN CHOOSE p \in 1..Len(pv) : pv[p].base = base_var
    ELSE 0

\* lines 148-156: the body of the loop over selected_vars
ParseOne(pv, var) ==
    IF EndsWith(var, MinSuffix) \/ EndsWith(var, MaxSuffix)
    THEN LET base_var == RsplitUnderscore(var)
             pv1 == IF KeyPos(pv, base_var) = 0
                    THEN Append(pv, [base |-> base_var, type |-> "array", vars |-> <<>>])
                    ELSE pv
         IN [pv1 EXCEPT ![KeyPos(pv1, base_var)].vars = Append(@, var)]
    ELSE LET entry == [base |-> var, type |-> "regular", vars |-> <<var>>]
         IN IF KeyPos(pv, var) = 0 THEN Append(pv, entry)
            ELSE [pv EXCEPT ![KeyPos(pv, var)] = entry]

\* lines 146-156: processed_vars after the loop over selected_vars
RECURSIVE ParseSelected(_, _)
ParseSelected(pv, sel) ==
    IF sel = <<>> THEN pv
    ELSE ParseSelected(ParseOne(pv, Head(sel)), Tail(sel))

\* AvailableVars without the test that the base name is a column
RECURSIVE AvailableVarsAll(_, _)
AvailableVarsAll(pv, columns) ==
    IF pv = <<>> THEN <<>>
    ELSE Head(pv).vars \o AvailableVarsAll(Tail(pv), columns)

\* lines 159-162: available_vars
RECURSIVE AvailableVars(_, _)
AvailableVars(pv, columns) ==
    IF pv = <<>> THEN <<>>
    ELSE (IF Head(pv).base \in columns THEN Head(pv).vars ELSE <<>>)
         \o AvailableVars(Tail(pv), columns)

\* pd.DataFrame(): no column, empty index
EmptyFrame == [index |-> 0, cols |-> <<>>]

ColPos(frame, name) ==
    IF \E p \in 1..Len(frame.cols) : frame.cols[p].name = name
    THEN CHOOSE p \in 1..Len(frame.cols) : frame.cols[p].name = name
    ELSE 0

\* the column name of the frame becomes values (replaced in place or added)
PutColumn(frame, name, values) ==
    LET c == [name |-> name, values |-> values]
    IN IF ColPos(frame, name) = 0
       THEN [frame EXCEPT !.cols = Append(@, c)]
       ELSE [frame EXCEPT !.cols[ColPos(frame, name)] = c]

\* DataFrame.__setitem__ first gives a frame whose index is empty the index
\* of a non-empty value; the columns it has are filled with NaN
EnsureIndex(frame, n) ==
    IF frame.index = 0 /\ n > 0
    THEN [index |-> n,
          cols |-> [p \in 1..Len(frame.cols) |->
                       [name |-> frame.cols[p].name,
                        values |-> [i \in 1..n |-> NaN]]]]
    ELSE frame

\* simplified_df[name] = <list>: ValueError unless the list is as long as
\* the index
SetItemList(frame, name, values) ==
    LET f == EnsureIndex(frame, Len(values))
    IN IF Len(values) # f.index
       THEN [raised |-> TRUE, frame |-> frame]
       ELSE [raised |-> FALSE, frame |-> PutColumn(f, name, values)]

\* simplified_df[name] = <Series>: the series is aligned on the index
SetItemSeries(frame, name, values) ==
    LET f == EnsureIndex(frame, Len(values))
    IN PutColumn(f, name, SubSeq(values, 1, f.index))

NoCategories == [l \in {} |-> "None"]

\* variable_categories[label] = category
SetCategory(cats, label, category) == (label :> category) @@ cats

Columns == DOMAIN df.col

\* lines 141-170: the tokens are grouped by base name; with no available
\* variable the function returns (None, [], {})
Parse ==
    /\ pc = "parse"
    /\ LET pv == ParseSelected(<<>>, selected_vars)
       IN /\ processed_vars' = pv
          /\ IF AvailableVars(pv, Columns) = <<>>
             THEN pc' = "done" /\ ret' = "empty"
             ELSE pc' = "loop" /\ ret' = ret
    /\ UNCHANGED <<calls, ui_vars, pf_vars, in_vars, simplified_df, dimensions, variable_categories, idx,
                   row, min_values, max_values>>

\* lines 183-184: a base name that is no column is passed over
SkipAbsent ==
    /\ pc = "loop" /\ idx <= Len(processed_vars)
    /\ processed_vars[idx].base \notin Columns
    /\ idx' = idx + 1
    /\ UNCHANGED <<calls, ui_vars, pf_vars, in_vars, processed_vars, simplified_df, dimensions,
                   variable_categories, row, min_values, max_values, pc, ret>>

\* lines 186-194: a regular variable is copied as it is
RegularVar ==
    /\ pc = "loop" /\ idx <= Len(processed_vars)
    /\ processed_vars[idx].base \in Columns
    /\ processed_vars[idx].type = "regular"
    /\ LET base_var == processed_vars[idx].base
           simplified_name == LastSegment(base_var)
       IN /\ simplified_df' = SetItemSeries(simplified_df, simplified_name, df.col[base_var])
          /\ dimensions' = Append(dimensions,
                                  [label |-> simplified_name, values |-> df.col[base_var]])
          /\ variable_categories' =
                SetCategory(variable_categories, simplified_name,
                            get_category(yaml_data, base_var))
    /\ idx' = idx + 1
    /\ UNCHANGED <<calls, ui_vars, pf_vars, in_vars, processed_vars, row, min_values, max_values, pc, ret>>

\* lines 196-205: an array variable starts with empty min_values, max_values
ArrayBegin ==
    /\ pc = "loop" /\ idx <= Len(processed_vars)
    /\ processed_vars[idx].base \in Columns
    /\ processed_vars[idx].type = "array"
    /\ min_values' = <<>> /\ max_values' = <<>>
    /\ row' = 1
    /\ pc' = "rows"
    /\ UNCHANGED <<calls, ui_vars, pf_vars, in_vars, processed_vars, simplified_df, dimensions,
                   variable_categories, idx, ret>>

\* lines 207-276: one cell of the array column
ArrayRow ==
    /\ pc = "rows" /\ row <= df.nrows
    /\ LET r == ProcessValue(df.col[processed_vars[idx].base][row],
                             processed_vars[idx].base, yaml_data)
       IN /\ min_values' = IF r.act = "skip" THEN min_values ELSE Append(min_values, r.min)
          /\ max_values' = IF r.act = "skip" THEN max_values ELSE Append(max_values, r.max)
    /\ row' = row + 1
    /\ UNCHANGED <<calls, ui_vars, pf_vars, in_vars, processed_vars, simplified_df, dimensions,
                   variable_categories, idx, pc, ret>>

\* lines 278-294: the two columns, the two dimensions and their category;
\* a column assignment that raises ends the call
ArrayEnd ==
    /\ pc = "rows" /\ row > df.nrows
    /\ LET base_var == processed_vars[idx].base
           base_name == LastSegment(base_var)
           min_name == base_name \o MinSuffix
           max_name == base_name \o MaxSuffix
           s1 == SetItemList(simplified_df, min_name, min_values)
           s2 == SetItemList(s1.frame, max_name, max_values)
           category == get_category(yaml_data, base_var)
       IN IF s1.raised \/ s2.raised
          THEN /\ pc' = "done" /\ ret' = "raised"
               /\ UNCHANGED <<simplified_df, dimensions, variable_categories, idx>>
          ELSE /\ simplified_df' = s2.frame
               /\ dimensions' = dimensions \o
                     << [label |-> min_name, values |-> min_values],
                        [label |-> max_name, values |-> max_values] >>
               /\ variable_categories' =
                     SetCategory(SetCategory(variable_categories, min_name, category),
                                 max_name, category)
               /\ idx' = idx + 1
               /\ pc' = "loop" /\ ret' = ret
    /\ UNCHANGED <<calls, ui_vars, pf_vars, in_vars, processed_vars, row, min_values, max_values>>

SampleId == <<"sample", "_", "id">>

\* lines 296-299: sample_id is added and the three results are returned
Finish ==
    /\ pc = "loop" /\ idx > Len(processed_vars)
    /\ simplified_df' =
          SetItemList(simplified_df, SampleId,
                      [i \in 1..simplified_df.index |-> i - 1]).frame
    /\ pc' = "done" /\ ret' = "ok"
    /\ UNCHANGED <<calls, ui_vars, pf_vars, in_vars, processed_vars, dimensions, variable_categories, idx,
                   row, min_values, max_values>>

\* lines 207-276, the end of one pass: the pair res is appended to the lists
\* prev unless the cell was skipped
AppendMinMax(prev, res) ==
    IF res.act = "skip" THEN prev
    ELSE [min |-> Append(prev.min, res.min), max |-> Append(prev.max, res.max)]

\* lines 207-276: min_values and max_values after the first r cells
RECURSIVE MinMaxValues(_, _, _, _)
MinMaxValues(tbl, base_var, yaml, r) ==
    IF r = 0 THEN [min |-> <<>>, max |-> <<>>]
    ELSE AppendMinMax(MinMaxValues(tbl, base_var, yaml, r - 1),
                      ProcessValue(tbl.col[base_var][r], base_var, yaml))

\* lines 188-197: a regular variable becomes one column and one dimension
RegularEntry(st, simplified_name, values, category) ==
    [st EXCEPT !.frame = SetItemSeries(@, simplified_name, values),
               !.dims = Append(@, [label |-> simplified_name, values |-> values]),
               !.cats = SetCategory(@, simplified_name, category)]

\* lines 278-294: an array variable becomes two columns and two dimensions;
\* an assignment of a list of the wrong length raises (line 283 or 284)
ArrayEntry(st, base_name, mm, category) ==
    LET min_name == base_name \o MinSuffix
        max_name == base_name \o MaxSuffix
        s1 == SetItemList(st.frame, min_name, mm.min)
        s2 == SetItemList(s1.frame, max_name, mm.max)
    IN IF s1.raised \/ s2.raised THEN [st EXCEPT !.raised = TRUE]
       ELSE [st EXCEPT
               !.frame = s2.frame,
               !.dims = @ \o << [label |-> min_name, values |-> mm.min],
                                [label |-> max_name, values |-> mm.max] >>,
               !.cats = SetCategory(SetCategory(@, min_name, category),
                                    max_name, category)]

\* lines 182-294: one pass of the loop over processed_vars, on the frame,
\* the dimensions and the categories built so far
ProcessEntry(st, entry, tbl, yaml) ==
    IF st.raised \/ entry.base \notin DOMAIN tbl.col THEN st
    ELSE IF entry.type = "regular"
    THEN RegularEntry(st, LastSegment(entry.base), tbl.col[entry.base],
                      get_category(yaml, entry.base))
    ELSE ArrayEntry(st, LastSegment(entry.base),
                    MinMaxValues(tbl, entry.base, yaml, tbl.nrows),
                    get_category(yaml, entry.base))

RECURSIVE ProcessEntries(_, _, _, _)
ProcessEntries(st, pv, tbl, yaml) ==
    IF pv = <<>> THEN st
    ELSE ProcessEntries(ProcessEntry(st, Head(pv), tbl, yaml), Tail(pv), tbl, yaml)

\* what a call gives back: ret is "empty" for (None, [], {}), "ok" for the
\* three results, "raised" when the call ends with an exception
Result(r, frame, dims, cats) ==
    [ret |-> r, simplified_df |-> frame, dimensions |-> dims,
     variable_categories |-> cats]

EmptyResult == Result("empty", EmptyFrame, <<>>, NoCategories)

RaisedResult == Result("raised", EmptyFrame, <<>>, NoCategories)

\* lines 164-166 and 296-299: the early return, or the three results built
\* by the loop (st) with the sample_id column added
PrepareReturn(available, st) ==
    IF available = <<>> THEN EmptyResult
    ELSE IF st.raised THEN RaisedResult
    ELSE Result("ok",
                SetItemList(st.frame, SampleId,
                            [i \in 1..st.frame.index |-> i - 1]).frame,
                st.dims, st.cats)

\* lines 159-299: the function once selected_vars is parsed into pv
PrepareParsed(pv, tbl, yaml) ==
    PrepareReturn(AvailableVars(pv, DOMAIN tbl.col),
                  ProcessEntries([frame |-> EmptyFrame, dims |-> <<>>,
                                  cats |-> NoCategories, raised |-> FALSE],
                                 pv, tbl, yaml))

\* the function as a whole
prepare_dataframe_for_splom(tbl, sel, yaml) ==
    PrepareParsed(ParseSelected(<<>>, sel), tbl, yaml)

\* the caller calls prepare_dataframe_for_splom once more with the same
\* arguments: the locals are created anew (lines 146, 168-170)
RecallPrepare ==
    /\ pc = "done" /\ calls < MaxCalls
    /\ processed_vars' = <<>>
    /\ simplified_df' = EmptyFrame
    /\ dimensions' = <<>>
    /\ variable_categories' = NoCategories
    /\ idx' = 1 /\ row' = 1
    /\ min_values' = <<>> /\ max_values' = <<>>
    /\ pc' = "parse" /\ ret' = "pending"
    /\ calls' = calls + 1
    /\ UNCHANGED <<pf_vars, in_vars, ui_vars>>

SplomNext ==
    \/ Parse
    \/ SkipAbsent
    \/ RegularVar
    \/ ArrayBegin
    \/ ArrayRow
    \/ ArrayEnd
    \/ Finish

-----------------------------------------------------------------------------
(* The stores of the dashboard (layouts/components.py, create_data_stores)  *)
(* and the component properties the callbacks read and write.  A value that *)
(* may be None is a record with the flag none.                              *)

NoTable == [none |-> TRUE, nrows |-> 0, col |-> <<>>]
Loaded(tbl) == [none |-> FALSE, nrows |-> tbl.nrows, col |-> tbl.col]

NoneList == [none |-> TRUE, list |-> <<>>]
SomeList(l) == [none |-> FALSE, list |-> l]

\* DataFrame.to_json(orient='split'): the column names, the index and the
\* values row by row
ToJson(frame) ==
    [columns |-> [p \in 1..Len(frame.cols) |-> frame.cols[p].name],
     index |-> [i \in 1..frame.index |-> i - 1],
     data |-> [i \in 1..frame.index |->
                  [p \in 1..Len(frame.cols) |-> frame.cols[p].values[i]]]]

\* pd.read_json(..., orient='split')
ReadJson(json) ==
    [index |-> Len(json.index),
     cols |-> [p \in 1..Len(json.columns) |->
                  [name |-> json.columns[p],
                   values |-> [i \in 1..Len(json.index) |-> json.data[i][p]]]]]

NoneFrame == [none |-> TRUE, json |-> ToJson(EmptyFrame)]
SomeFrame(f) == [none |-> FALSE, json |-> ToJson(f)]

NoneDict == [none |-> TRUE, d |-> NoCategories]
SomeDict(d) == [none |-> FALSE, d |-> d]

\* selected-iteration: None, the '' the layout starts with, or a row position
NoIteration == -1
EmptyString == -2

NoClick == [none |-> TRUE, curveNumber |-> 0, pointNumber |-> 0]
Click(curve, point) == [none |-> FALSE, curveNumber |-> curve, pointNumber |-> point]

\* splom.figure: none before the first update_splom, a message figure, or
\* the scatter plot matrix with the Pareto indices and the highlight passed
NoFigure == [kind |-> "none", pareto |-> NoneList, highlighted |-> NoIteration]
MessageFigure == [kind |-> "message", pareto |-> NoneList, highlighted |-> NoIteration]

\* what download_splom_html ended with: nothing to download (None), the
\* HTML file with the indices of its Pareto trace (None without the trace),
\* or an exception
NoDownload == [status |-> "none", pareto |-> NoneList]
HtmlDownload(pareto) == [status |-> "html", pareto |-> pareto]
DownloadError == [status |-> "error", pareto |-> NoneList]

\* the stores as the layout creates them
UiLayout ==
    /\ csv_df = NoTable
    /\ yaml_df = NoYaml
    /\ selected_channels = <<>>
    /\ selected_iteration = EmptyString
    /\ pareto_front_enabled = FALSE
    /\ objective_senses_store = SenseDict([n \in {} |-> "minimize"])
    /\ diagonal_visible = "None"
    /\ click_data = NoClick
    /\ splom_figure = NoFigure
    /\ simplified_df_store = NoneFrame
    /\ dimensions_data = NoneList
    /\ variable_categories_data = NoneDict
    /\ pf_called = FALSE
    /\ download = NoDownload
    /\ events = 0

\* no dashboard is running
UiIdle == UiLayout /\ trigger = "none"

-----------------------------------------------------------------------------
(* Inputs of find_pareto_front *)

ObjCols == {"f1", "f2", "f3"}

\* the objective values tried: two numbers, so that rows can be equal,
\* smaller or larger in each objective, and the missing value
Floats == {1, 2, NaN}

\* the table of the worked example: rows (1,4),(2,3),(3,2),(4,1),(2,2)
ToyTable ==
    [nrows |-> 5,
     col |-> [c \in ObjCols |->
                 IF c = "f1" THEN <<1, 2, 3, 4, 2>>
                 ELSE IF c = "f2" THEN <<4, 3, 2, 1, 2>>
                 ELSE <<0, 0, 0, 0, 0>>]]

\* tables of n rows whose columns in `used` range over vals; the others are 0
TablesOver(used, n, vals) ==
    { [nrows |-> n,
       col |-> [c \in ObjCols |-> IF c \in used THEN f[c] ELSE [i \in 1..n |-> 0]]] :
      f \in [used -> [1..n -> vals]] }

ObjectiveLists == { <<>>, <<"f1">>, <<"f1", "f2">>, <<"f1", "f2", "f3">> }

Range(s) == { s[i] : i \in DOMAIN s }

SenseChoices ==
    { NoSenses,
      SenseDict([n \in {} |-> "minimize"]),
      SenseDict([n \in {"f1", "f2", "f3"} |-> "minimize"]),
      SenseDict([n \in {"f1", "f2"} |-> IF n = "f2" THEN "maximize" ELSE "minimize"]),
      SenseDict([n \in {"f1", "f2"} |-> "maximize"]),
      SenseDict([n \in {"f1"} |-> "MAXIMIZE"]),
      SenseDict([n \in {"f3"} |-> "maximize"]) }

\* the sense mappings tried with three objectives
SenseChoices3 ==
    { NoSenses, SenseDict([n \in {"f3"} |-> "maximize"]) }

\* no call of prepare_dataframe_for_splom is under way
SplomIdle ==
    /\ df = [nrows |-> 0, col |-> [c \in {} |-> <<>>]]
    /\ selected_vars = <<>>
    /\ yaml_data = NoYaml
    /\ processed_vars = <<>>
    /\ simplified_df = EmptyFrame
    /\ dimensions = <<>>
    /\ variable_categories = NoCategories
    /\ idx = 1 /\ row = 1
    /\ min_values = <<>> /\ max_values = <<>>
    /\ pc = "idle" /\ ret = "pending"

\* no call of find_pareto_front is under way
ParetoIdle ==
    /\ objectives = <<>>
    /\ obj_df = [nrows |-> 0, col |-> [c \in {} |-> <<>>]]
    /\ objective_senses = NoSenses
    /\ pareto_indices = <<>>
    /\ pf_pc = "idle"

\* tables that lack objective columns: the frame without any column, and
\* the tables of at most one row whose only column is f1
PartialTables ==
    { [nrows |-> 0, col |-> [c \in {} |-> <<>>]] }
    \cup UNION { { [nrows |-> n, col |-> [c \in {"f1"} |-> f]] : f \in [1..n -> Floats] } :
                n \in 0..1 }

\* tables of three rows in which every row has the values 1 and 2 and a
\* missing value, each in one of the three objectives
MissingValueTables ==
    { [nrows |-> 3,
       col |-> [c \in ObjCols |-> [i \in 1..3 |-> rows[i][c]]]] :
      rows \in [1..3 -> { r \in [ObjCols -> Floats] :
                            { r[c] : c \in ObjCols } = Floats }] }

ParetoInit ==
    /\ SplomIdle /\ UiIdle /\ calls = 0
    /\ objectives \in ObjectiveLists
    /\ \/ obj_df = ToyTable
       \/ \E n \in 0..MaxRows :
             /\ Len(objectives) = 3 => n < MaxRows
             /\ obj_df \in TablesOver(Range(objectives), n, Floats)
       \/ obj_df \in PartialTables
       \/ Len(objectives) = 3 /\ obj_df \in MissingValueTables
    /\ objective_senses \in SenseChoices
    /\ Len(objectives) = 3 => objective_senses \in SenseChoices3
    /\ pareto_indices = <<>>
    /\ pf_pc = "call"

\* one call of find_pareto_front on the inputs
CallParetoFront ==
    /\ pf_pc = "call"
    /\ IF find_pareto_front_raises(objectives, obj_df, objective_senses)
       THEN /\ pf_pc' = "raised"
            /\ UNCHANGED <<pareto_indices, obj_df>>
       ELSE /\ pareto_indices' = find_pareto_front(objectives, obj_df, objective_senses)
            /\ obj_df' = TableAfterCall(objectives, obj_df, objective_senses)
            /\ pf_pc' = "done"
    /\ UNCHANGED <<objectives, objective_senses, splom_vars, calls, ui_vars>>

\* the caller calls find_pareto_front once more with the same arguments
RecallParetoFront ==
    /\ pf_pc = "done" /\ calls < MaxCalls
    /\ pareto_indices' = find_pareto_front(objectives, obj_df, objective_senses)
    /\ obj_df' = TableAfterCall(objectives, obj_df, objective_senses)
    /\ calls' = calls + 1
    /\ UNCHANGED <<objectives, objective_senses, pf_pc, splom_vars, ui_vars>>

ParetoNext == CallParetoFront

SpecPareto == ParetoInit /\ [][ParetoNext]_vars

-----------------------------------------------------------------------------
(* Inputs of prepare_dataframe_for_splom *)

VarA == <<"a">>
VarB == <<"b">>
VarC == <<"c">>

\* the bound pair of a constraint: [1, MaxVal]
LowerBound == 1
UpperBound == MaxVal

\* the number pairs held by the array cells: around and across the bounds
PairSet ==
    { <<v, w>> : v \in {LowerBound - 1, LowerBound}, w \in {UpperBound, UpperBound + 1} }
    \cup { <<UpperBound + 1, LowerBound - 1>> }

Encodings == {"native", "numpy", "literal"}

\* a pair as a native sequence, as '[v w]' or as '[v, w]'
Encode(fmt, pair) ==
    IF fmt = "native" THEN ListCell(pair)
    ELSE IF fmt = "numpy"
    THEN StrCell(<<LB, NumTok(pair[1]), WS, NumTok(pair[2]), RB>>)
    ELSE StrCell(<<LB, NumTok(pair[1]), Comma, WS, NumTok(pair[2]), RB>>)

\* 'abc' and '[1 abc]': no decoding applies
WordCell == StrCell(<<WordTok>>)
BracketWordCell == StrCell(<<LB, NumTok(LowerBound), WS, WordTok, RB>>)
\* 'None': a literal that float() rejects with TypeError
NoneCell == StrCell(<<NoneTok>>)

ArrayCells(fmt) ==
    { Encode(fmt, pair) : pair \in PairSet }
    \cup { WordCell, BracketWordCell, NoneCell, NumCell(NaN), NumCell(LowerBound) }

\* tables with the array column a and the scalar column b
SplomTables ==
    UNION { UNION { { [nrows |-> n,
                       col |-> (VarA :> ca) @@ (VarB :> [i \in 1..n |-> NumCell(i)])] :
                      ca \in [1..n -> ArrayCells(fmt)] } :
                    fmt \in Encodings } :
            n \in 0..MaxCells }

BothBounds == BoundEntry([k \in {"lower", "upper"} |->
                             IF k = "lower" THEN LowerBound ELSE UpperBound])
LowerOnly == BoundEntry([k \in {"lower"} |-> LowerBound])

NoEntries == [n \in {} |-> BareEntry]

YamlChoices ==
    { NoYaml,
      Yaml(NoEntries, NoEntries, NoEntries),
      Yaml(NoEntries, VarA :> BothBounds, VarB :> BareEntry),
      Yaml(NoEntries, VarA :> BareEntry, NoEntries),
      Yaml(VarA :> BareEntry, VarA :> BothBounds, NoEntries),
      Yaml(VarB :> BareEntry, NoEntries, VarA :> BothBounds),
      Yaml(NoEntries, VarA :> LowerOnly, NoEntries),
      Yaml(VarA :> BareEntry, NoEntries, (VarA :> BareEntry) @@ (VarB :> BareEntry)) }

Min(v) == v \o MinSuffix
Max(v) == v \o MaxSuffix

TokenLists ==
    { <<>>, <<Min(VarA)>>, <<Max(VarA)>>,
      <<Min(VarA), Max(VarA)>>, <<Max(VarA), Min(VarA)>>,
      <<VarB, Min(VarA)>>, <<Min(VarA), VarB>>,
      <<VarA, Min(VarA)>>, <<Min(VarA), VarA>>,
      <<VarB>>, <<Min(VarC)>>, <<Min(VarC), Max(VarA)>>,
      <<VarC, VarB, Max(VarC)>>, <<VarB, VarB>> }

\* a table of two rows with the array column a as given
TwoRows(c1, c2) ==
    [nrows |-> 2, col |-> (VarA :> <<c1, c2>>) @@ (VarB :> <<NumCell(1), NumCell(2)>>)]

\* the tables on which every token list is tried
SelectionTables ==
    { TwoRows(Encode("numpy", <<LowerBound, UpperBound>>),
              Encode("numpy", <<UpperBound + 1, LowerBound - 1>>)),
      TwoRows(WordCell, Encode("literal", <<LowerBound, UpperBound + 1>>)),
      TwoRows(Encode("native", <<LowerBound - 1, UpperBound>>), NoneCell) }

\* the token lists with which every table is tried
DecodingTokenLists == { <<Min(VarA)>>, <<VarB, Max(VarA)>> }

\* two columns whose names end in the same segment, and an array column
DotP == <<"p", ".", "m">>
DotQ == <<"q", ".", "m">>

DotTable ==
    [nrows |-> 2,
     col |-> (DotP :> <<NumCell(1), NumCell(2)>>) @@ (DotQ :> <<NumCell(2), NumCell(1)>>)
             @@ (VarA :> <<Encode("numpy", <<LowerBound, UpperBound>>),
                           Encode("native", <<LowerBound - 1, UpperBound + 1>>)>>)]

DotTokenLists ==
    { <<DotP>>, <<DotP, DotQ>>, <<DotQ, DotP>>, <<DotP, DotQ, DotP>>,
      <<DotP, Min(VarA), DotP>>, <<Min(VarA), DotP>>, <<Min(DotQ), DotP, Max(DotQ)>> }

DotYamlChoices ==
    { NoYaml,
      Yaml(DotP :> BareEntry, DotQ :> BothBounds, VarA :> BareEntry),
      Yaml(DotP :> BareEntry, NoEntries, NoEntries) }

\* a table with a column of numbers whose own name ends in _min
XMin == <<"x", "_", "min">>

SuffixTable ==
    [nrows |-> 2,
     col |-> (XMin :> <<NumCell(1), NumCell(2)>>) @@ (VarB :> <<NumCell(2), NumCell(1)>>)]

SuffixTokenLists == { <<VarB>>, <<XMin>>, <<VarB, XMin>>, <<XMin, VarB>> }

SuffixYamlChoices == { NoYaml, Yaml(XMin :> BareEntry, NoEntries, VarB :> BareEntry) }

SplomInit ==
    /\ ParetoIdle /\ UiIdle /\ calls = 0
    /\ \/ /\ df \in SplomTables /\ selected_vars \in DecodingTokenLists
          /\ yaml_data \in YamlChoices
       \/ /\ df \in SelectionTables /\ selected_vars \in TokenLists
          /\ yaml_data \in YamlChoices
       \/ /\ df = DotTable /\ selected_vars \in DotTokenLists
          /\ yaml_data \in DotYamlChoices
       \/ /\ df = SuffixTable /\ selected_vars \in SuffixTokenLists
          /\ yaml_data \in SuffixYamlChoices
    /\ processed_vars = <<>>
    /\ simplified_df = EmptyFrame
    /\ dimensions = <<>>
    /\ variable_categories = NoCategories
    /\ idx = 1 /\ row = 1
    /\ min_values = <<>> /\ max_values = <<>>
    /\ pc = "parse" /\ ret = "pending"

SpecSplom == SplomInit /\ [][SplomNext]_vars

-----------------------------------------------------------------------------
(* Inputs of the dashboard *)

F1 == <<"f1">>
F2 == <<"f2">>

\* a variable whose name starts with the name of the array variable and "_"
VarAX == <<"a", "_", "x">>

\* a table with two columns of numbers and a column of arrays; its first
\* row is dominated by the other two
UiTables ==
    { [nrows |-> 3,
       col |-> (F1 :> <<NumCell(2), NumCell(1), NumCell(2)>>)
               @@ (F2 :> <<NumCell(2), NumCell(2), NumCell(1)>>)
               @@ (VarA :> <<ListCell(<<LowerBound, UpperBound>>),
                             ListCell(<<LowerBound - 1, UpperBound>>),
                             ListCell(<<LowerBound, LowerBound>>)>>)] }

\* configurations with two objectives, one objective and none
UiYamlChoices ==
    { Yaml((F1 :> BareEntry) @@ (F2 :> BareEntry), VarA :> BothBounds, NoEntries),
      Yaml(F1 :> BareEntry, VarA :> BothBounds, F2 :> BareEntry),
      Yaml(NoEntries, VarA :> BareEntry, (F1 :> BareEntry) @@ (VarAX :> BareEntry)) }

-----------------------------------------------------------------------------
(* Both functions, each called repeatedly with the same arguments *)

\* the inputs on which the calls are repeated
CoreInputs ==
    /\ pf_pc = "call" => (obj_df = ToyTable \/ obj_df.nrows <= 2) /\ Len(objectives) <= 2
    /\ pc = "parse" => df \in SelectionTables \cup {DotTable}

CoreInit == (ParetoInit \/ SplomInit) /\ CoreInputs

CoreNext ==
    \/ ParetoNext
    \/ SplomNext
    \/ RecallParetoFront
    \/ RecallPrepare

SpecCore == CoreInit /\ [][CoreNext]_vars

-----------------------------------------------------------------------------
(* The callbacks of the dashboard *)

core_vars == <<pf_vars, splom_vars, calls>>

\* the outputs of update_splom, and whether it called find_pareto_front
update_outputs == <<splom_figure, selected_iteration, simplified_df_store,
                    dimensions_data, variable_categories_data, pf_called>>

\* str.startswith
StartsWith(name, prefix) ==
    /\ Len(name) >= Len(prefix)
    /\ SubSeq(name, 1, Len(prefix)) = prefix

\* list.remove(x): the first occurrence of x is taken out
RemoveFirst(lst, x) ==
    LET p == CHOOSE q \in 1..Len(lst) : lst[q] = x /\ \A r \in 1..(q - 1) : lst[r] # x
    IN SubSeq(lst, 1, p - 1) \o SubSeq(lst, p + 1, Len(lst))

\* a list of the elements of a set, each once
Orderings(S) == { l \in [1..Cardinality(S) -> S] : Range(l) = S }

\* list(d.keys())
KeyList(d) == CHOOSE l \in Orderings(DOMAIN d) : TRUE

\* detect_array_columns, lines 38-55: the value is array-like
IsArrayValue(val) ==
    IF val.kind = "list" THEN Len(val.elems) > 1
    ELSE IF val.kind = "str"
    THEN LET parsed == literal_eval(val.text)
             val_clean == Strip(val.text)
             inner_str == Strip(SubSeq(val_clean, 2, Len(val_clean) - 1))
         IN IF parsed.exc = "none"
            THEN parsed.kind = "list" /\ Len(parsed.items) > 1
            ELSE /\ val_clean # <<>>
                 /\ val_clean[1] = LB /\ val_clean[Len(val_clean)] = RB
                 /\ Len(SplitWS(inner_str, <<>>)) > 1
    ELSE FALSE

\* df[col].dropna().head(3)
SampleValues(cells) ==
    LET kept == SelectSeq(cells, LAMBDA c : ~(c.kind = "num" /\ IsNaN(c.num)))
    IN SubSeq(kept, 1, IF Len(kept) < 3 THEN Len(kept) ELSE 3)

\* detect_array_columns (channel_selection.py, lines 14-66)
detect_array_columns(csv_data) ==
    IF csv_data.none THEN {}
    ELSE { c \in DOMAIN csv_data.col :
             \E p \in 1..Len(SampleValues(csv_data.col[c])) :
                 IsArrayValue(SampleValues(csv_data.col[c])[p]) }

\* update_channel_buttons, line 93: the variables that get a button
AllVariables(yaml) ==
    IF yaml.none THEN {}
    ELSE DOMAIN yaml.objectives \cup DOMAIN yaml.constraints \cup DOMAIN yaml.design_vars

\* create_button_group: a variable has a regular button or an array button
RegularButtons == AllVariables(yaml_df) \ detect_array_columns(csv_df)

ArrayButtons == AllVariables(yaml_df) \cap detect_array_columns(csv_df)

\* RegularClick that adds the token whether it is selected or not
RegularClickAppendOnly(current_selected, clicked_var) ==
    Append(current_selected, clicked_var)

\* handle_channels_selection, lines 197-208: a regular button was clicked
RegularClick(current_selected, clicked_var) ==
    IF clicked_var \in Range(current_selected)
    THEN RemoveFirst(current_selected, clicked_var)
    ELSE Append(current_selected, clicked_var)

\* ArrayClick that adds the pair without taking the tokens of the variable
\* out first
ArrayClickNoFilter(current_selected, var_name) ==
    IF var_name \o MinSuffix \in Range(current_selected)
       /\ var_name \o MaxSuffix \in Range(current_selected)
    THEN SelectSeq(current_selected,
                   LAMBDA sel : sel \notin {var_name \o MinSuffix, var_name \o MaxSuffix})
    ELSE current_selected \o <<var_name \o MinSuffix, var_name \o MaxSuffix>>

\* handle_channels_selection, lines 210-231: an array button was clicked
ArrayClick(current_selected, var_name) ==
    LET min_var == var_name \o MinSuffix
        max_var == var_name \o MaxSuffix
        is_selected == min_var \in Range(current_selected)
                       /\ max_var \in Range(current_selected)
    IN IF is_selected
       THEN SelectSeq(current_selected, LAMBDA sel : sel \notin {min_var, max_var})
       ELSE SelectSeq(current_selected,
                      LAMBDA sel : ~(StartsWith(sel, var_name \o <<"_">>) \/ sel = var_name))
            \o <<min_var, max_var>>

\* handle_channels_selection (channel_selection.py, lines 179-239), run by
\* a click on a button; the new list goes to the store selected-channels
handle_channels_selection ==
    /\ trigger = "none" /\ events < MaxEvents
    /\ events' = events + 1
    /\ \/ \E clicked_var \in RegularButtons :
             /\ Len(RegularClick(selected_channels, clicked_var)) <= MaxSelected
             /\ selected_channels' = RegularClick(selected_channels, clicked_var)
       \/ \E var_name \in ArrayButtons :
             /\ Len(ArrayClick(selected_channels, var_name)) <= MaxSelected
             /\ selected_channels' = ArrayClick(selected_channels, var_name)
    /\ trigger' = "selected-channels"
    /\ UNCHANGED <<core_vars, csv_df, yaml_df, pareto_front_enabled,
                   objective_senses_store, diagonal_visible, click_data,
                   update_outputs, download>>

\* toggle_pareto_front (visualization.py, lines 27-31)
toggle_pareto_front ==
    /\ trigger = "none" /\ events < MaxEvents
    /\ events' = events + 1
    /\ pareto_front_enabled' = ~pareto_front_enabled
    /\ trigger' = "pareto-front-enabled"
    /\ UNCHANGED <<core_vars, csv_df, yaml_df, selected_channels,
                   objective_senses_store, diagonal_visible, click_data,
                   update_outputs, download>>

\* toggle_diagonal (visualization.py, lines 46-50): not None is True
toggle_diagonal ==
    /\ trigger = "none" /\ events < MaxEvents
    /\ events' = events + 1
    /\ diagonal_visible' = IF diagonal_visible = "True" THEN "False" ELSE "True"
    /\ trigger' = "diagonal-visible"
    /\ UNCHANGED <<core_vars, csv_df, yaml_df, selected_channels,
                   pareto_front_enabled, objective_senses_store, click_data,
                   update_outputs, download>>

\* update_objective_senses (channel_selection.py, lines 246-260): one radio
\* value per objective
update_objective_senses ==
    /\ trigger = "none" /\ events < MaxEvents
    /\ events' = events + 1
    /\ ~yaml_df.none /\ DOMAIN yaml_df.objectives # {}
    /\ \E sense_values \in [DOMAIN yaml_df.objectives -> {"minimize", "maximize"}] :
          objective_senses_store' = SenseDict(sense_values)
    /\ objective_senses_store' # objective_senses_store
    /\ trigger' = "objective-senses"
    /\ UNCHANGED <<core_vars, csv_df, yaml_df, selected_channels,
                   pareto_front_enabled, diagonal_visible, click_data,
                   update_outputs, download>>

\* load_csv_data (data_loading.py, lines 44-64): a table is loaded
load_csv_data ==
    /\ trigger = "none" /\ events < MaxEvents
    /\ events' = events + 1
    /\ csv_df.none
    /\ \E tbl \in UiTables : csv_df' = Loaded(tbl)
    /\ trigger' = "csv-df"
    /\ UNCHANGED <<core_vars, yaml_df, selected_channels, pareto_front_enabled,
                   objective_senses_store, diagonal_visible, click_data,
                   update_outputs, download>>

\* load_yaml_data (data_loading.py, lines 73-96): a configuration is loaded;
\* yaml-df is no input of update_splom
load_yaml_data ==
    /\ trigger = "none" /\ events < MaxEvents
    /\ events' = events + 1
    /\ yaml_df.none
    /\ yaml_df' \in UiYamlChoices
    /\ UNCHANGED <<core_vars, csv_df, selected_channels, pareto_front_enabled,
                   objective_senses_store, diagonal_visible, click_data, trigger,
                   update_outputs, download>>

\* the traces of the figure (plot_helpers.py, lines 228, 231-267, 270-305)
HasParetoTrace(fig) ==
    fig.kind = "splom" /\ ~fig.pareto.none /\ Len(fig.pareto.list) > 0

HasHighlightTrace(fig, n_samples) ==
    fig.kind = "splom" /\ fig.highlighted # NoIteration /\ fig.highlighted < n_samples

\* the points of the figure a click can hit: a trace and the position of the
\* point in that trace
ClickablePoints ==
    IF splom_figure.kind # "splom" \/ csv_df.none THEN {}
    ELSE { Click("main", i) : i \in 0..(csv_df.nrows - 1) }
         \cup (IF HasParetoTrace(splom_figure)
               THEN { Click("pareto", k) : k \in 0..(Len(splom_figure.pareto.list) - 1) }
               ELSE {})
         \cup (IF HasHighlightTrace(splom_figure, csv_df.nrows)
               THEN { Click("highlight", 0) } ELSE {})

\* the table row that a point of the figure stands for: the main trace has
\* one point per row, the Pareto trace one per Pareto index (lines 238, 247),
\* the highlight trace the highlighted row alone (line 278)
PointRow(fig, click) ==
    IF click.curveNumber = "pareto" THEN fig.pareto.list[click.pointNumber + 1]
    ELSE IF click.curveNumber = "highlight" THEN fig.highlighted
    ELSE click.pointNumber

\* the user clicks a point of the plot: splom.clickData changes
PlotClick ==
    /\ trigger = "none" /\ events < MaxEvents
    /\ events' = events + 1
    /\ click_data' \in ClickablePoints
    /\ trigger' = "splom"
    /\ UNCHANGED <<core_vars, csv_df, yaml_df, selected_channels,
                   pareto_front_enabled, objective_senses_store, diagonal_visible,
                   update_outputs, download>>

\* the user clicks Clear Highlighting
ClearHighlightClick ==
    /\ trigger = "none" /\ events < MaxEvents
    /\ events' = events + 1
    /\ splom_figure.kind = "splom"
    /\ trigger' = "clear-highlight-btn"
    /\ UNCHANGED <<core_vars, csv_df, yaml_df, selected_channels,
                   pareto_front_enabled, objective_senses_store, diagonal_visible,
                   click_data, update_outputs, download>>

\* the table with the number of every cell, as df[objectives].values has it
\* for columns of numbers
NumericTable(tbl) ==
    [nrows |-> tbl.nrows,
     col |-> [c \in DOMAIN tbl.col |-> [i \in 1..tbl.nrows |-> tbl.col[c][i].num]]]

\* UpdateSplomPareto without the test that there are 2 objectives
UpdateSplomParetoAnyCount(enabled, yaml, senses, csv) ==
    IF enabled /\ ~yaml.none
    THEN [called |-> TRUE,
          indices |-> SomeList(find_pareto_front(KeyList(yaml.objectives),
                                                 NumericTable(csv), senses))]
    ELSE [called |-> FALSE, indices |-> NoneList]

\* update_splom, lines 155-164: the call made under try; an exception is
\* caught and pareto_indices stays None
CallForPareto(objs, tbl, senses) ==
    IF Len(objs) >= 2
    THEN [called |-> TRUE,
          indices |-> IF find_pareto_front_raises(objs, tbl, senses) THEN NoneList
                      ELSE SomeList(find_pareto_front(objs, tbl, senses))]
    ELSE [called |-> FALSE, indices |-> NoneList]

\* update_splom, lines 141-164: the Pareto indices passed to the figure and
\* whether find_pareto_front was called
UpdateSplomPareto(enabled, yaml, senses, csv) ==
    IF enabled /\ ~yaml.none
    THEN CallForPareto(KeyList(yaml.objectives), NumericTable(csv),
                       IF SensesTruthy(senses) THEN senses
                       ELSE SenseDict([obj \in DOMAIN yaml.objectives |-> "minimize"]))
    ELSE [called |-> FALSE, indices |-> NoneList]

\* create_splom_figure (plot_helpers.py, lines 127-142 and 228-307): an
\* empty figure, a message, or the matrix with the Pareto indices and the
\* highlighted iteration it was given
create_splom_figure(frame, dims, highlighted_iteration, pareto, diagonal) ==
    [kind |-> IF frame.index = 0 \/ dims = <<>> THEN "empty"
              ELSE IF Len(dims) < 2 THEN "message"
              ELSE IF Len(dims) = 2 /\ diagonal # "True" THEN "message"
              ELSE "splom",
     pareto |-> pareto,
     highlighted |-> highlighted_iteration]

\* update_splom, lines 82-106: the click toggles against a local that is
\* None at that point, so a clicked point is always taken
HighlightedIteration ==
    IF trigger = "splom" /\ ~click_data.none THEN click_data.pointNumber
    ELSE NoIteration

\* update_splom, lines 110-175: the outputs, given the number of selected
\* variables, what prepare_dataframe_for_splom gave (result) and the Pareto
\* part (pf); a call that raises leaves the outputs as they are
UpdateSplomReturn(n_selected, result, pf) ==
    IF n_selected < 2 \/ result.ret = "empty"
    THEN /\ splom_figure' = MessageFigure
         /\ selected_iteration' = HighlightedIteration
         /\ simplified_df_store' = NoneFrame
         /\ dimensions_data' = NoneList
         /\ variable_categories_data' = NoneDict
         /\ pf_called' = FALSE
    ELSE IF result.ret = "raised"
    THEN /\ pf_called' = FALSE
         /\ UNCHANGED <<splom_figure, selected_iteration, simplified_df_store,
                        dimensions_data, variable_categories_data>>
    ELSE /\ splom_figure' =
               create_splom_figure(result.simplified_df, result.dimensions,
                                   HighlightedIteration, pf.indices, diagonal_visible)
         /\ selected_iteration' = HighlightedIteration
         /\ simplified_df_store' = SomeFrame(result.simplified_df)
         /\ dimensions_data' = SomeList(result.dimensions)
         /\ variable_categories_data' = SomeDict(result.variable_categories)
         /\ pf_called' = pf.called

\* update_splom (visualization.py, lines 74-175), run when one of its
\* inputs changed; list(set(...)) gives the selected variables in some order
update_splom ==
    /\ trigger # "none"
    /\ trigger' = "none"
    /\ UNCHANGED events
    /\ IF csv_df.none
       THEN /\ splom_figure' = MessageFigure
            /\ selected_iteration' = NoIteration
            /\ simplified_df_store' = NoneFrame
            /\ dimensions_data' = NoneList
            /\ variable_categories_data' = NoneDict
            /\ pf_called' = FALSE
       ELSE \E all_selected_vars \in Orderings(Range(selected_channels)) :
              UpdateSplomReturn(
                  Len(all_selected_vars),
                  prepare_dataframe_for_splom(csv_df, all_selected_vars, yaml_df),
                  UpdateSplomPareto(pareto_front_enabled, yaml_df,
                                    objective_senses_store, csv_df))
    /\ UNCHANGED <<core_vars, csv_df, yaml_df, selected_channels,
                   pareto_front_enabled, objective_senses_store, diagonal_visible,
                   click_data, download>>

\* the simplified table as find_pareto_front reads it: the numbers of the
\* cells of the copied columns, the min/max columns and sample_id as they are
FrameTable(frame) ==
    LET names == { frame.cols[p].name : p \in 1..Len(frame.cols) }
        IsNumbers(name) ==
            EndsWith(name, MinSuffix) \/ EndsWith(name, MaxSuffix) \/ name = SampleId
    IN [nrows |-> frame.index,
        col |-> [c \in names |->
                    [i \in 1..frame.index |->
                        IF IsNumbers(c) THEN frame.cols[ColPos(frame, c)].values[i]
                        ELSE frame.cols[ColPos(frame, c)].values[i].num]]]

\* download_splom_html, lines 261-271: the senses under the simplified names
RECURSIVE SimplifiedSenses(_, _, _, _)
SimplifiedSenses(cols_original, senses, columns, acc) ==
    IF cols_original = <<>> THEN acc
    ELSE LET orig_col == Head(cols_original)
             simplified_name == LastSegment(orig_col)
         IN SimplifiedSenses(Tail(cols_original), senses, columns,
                IF orig_col \in DOMAIN senses.d /\ simplified_name \in columns
                THEN (simplified_name :> senses.d[orig_col]) @@ acc
                ELSE acc)

\* download_splom_html, lines 246-252: the selected objectives, and their
\* simplified names that are columns of the simplified table
ObjectiveColsOriginal ==
    SelectSeq(selected_channels, LAMBDA col : col \in DOMAIN yaml_df.objectives)

FrameColumns(frame) == { frame.cols[p].name : p \in 1..Len(frame.cols) }

ObjectiveColsSimplified(original, columns) ==
    SelectSeq([p \in 1..Len(original) |-> LastSegment(original[p])],
              LAMBDA name : name \in columns)

\* download_splom_html, lines 261-276: the senses given to find_pareto_front
ExportSenses(mapped, simplified) ==
    IF DOMAIN mapped = {}
    THEN SenseDict([n \in Range(simplified) |-> "minimize"])
    ELSE SenseDict(mapped)

\* download_splom_html, lines 278-305: the trace made of the rows found; a
\* row past the end of a dimension's values raises
ExportTrace(found) ==
    IF Len(found) = 0 THEN [error |-> FALSE, pareto |-> NoneList]
    ELSE IF dimensions_data.none
            \/ \E p \in 1..Len(dimensions_data.list), q \in 1..Len(found) :
                   found[q] >= Len(dimensions_data.list[p].values)
    THEN [error |-> TRUE, pareto |-> NoneList]
    ELSE [error |-> FALSE, pareto |-> SomeList(found)]

\* download_splom_html, lines 253-305, once two objectives are selected
ExportFront(frame, original, simplified) ==
    IF Len(simplified) < 2 THEN [error |-> FALSE, pareto |-> NoneList]
    ELSE ExportTrace(find_pareto_front(
             simplified, FrameTable(frame),
             ExportSenses(IF SensesTruthy(objective_senses_store)
                          THEN SimplifiedSenses(original, objective_senses_store,
                                                FrameColumns(frame),
                                                [n \in {} |-> "minimize"])
                          ELSE [n \in {} |-> "minimize"],
                          simplified)))

\* download_splom_html, lines 246-305: the indices of the Pareto trace of
\* the export, None when no trace is added; error when building it raises
ExportParetoOf(frame, original) ==
    IF simplified_df_store.none \/ frame.index = 0 \/ yaml_df.none
       \/ Len(original) < 2
    THEN [error |-> FALSE, pareto |-> NoneList]
    ELSE ExportFront(frame, original,
                     ObjectiveColsSimplified(original, FrameColumns(frame)))

ExportPareto ==
    ExportParetoOf(ReadJson(simplified_df_store.json), ObjectiveColsOriginal)

\* download_splom_html, lines 212-217 and 307-336: building the main trace
\* or the highlight trace raises
ExportTraceError ==
    \/ ~dimensions_data.none /\ dimensions_data.list # <<>> /\ simplified_df_store.none
    \/ dimensions_data.none
    \/ dimensions_data.list = <<>>
    \/ selected_iteration = EmptyString
    \/ \E p \in 1..Len(dimensions_data.list) :
           (IF selected_iteration # NoIteration THEN selected_iteration ELSE 0)
               >= Len(dimensions_data.list[p].values)

\* download_splom_html (visualization.py, lines 192-740): the file, given
\* whether a trace raised and the Pareto part of the export
DownloadOf(trace_error, export) ==
    IF trace_error \/ export.error THEN DownloadError
    ELSE HtmlDownload(export.pareto)

\* what a click on Download gives in the current state
DownloadOutcome ==
    IF splom_figure.kind = "none" \/ csv_df.none THEN NoDownload
    ELSE DownloadOf(ExportTraceError, ExportPareto)

download_splom_html ==
    /\ trigger = "none" /\ events < MaxEvents
    /\ events' = events + 1
    /\ download' = DownloadOutcome
    /\ UNCHANGED <<core_vars, csv_df, yaml_df, selected_channels,
                   pareto_front_enabled, objective_senses_store, diagonal_visible,
                   click_data, trigger, update_outputs>>

UiNext ==
    \/ load_csv_data
    \/ load_yaml_data
    \/ handle_channels_selection
    \/ toggle_pareto_front
    \/ toggle_diagonal
    \/ update_objective_senses
    \/ PlotClick
    \/ ClearHighlightClick
    \/ update_splom
    \/ download_splom_html

\* the dashboard starts with the first call of update_splom pending
UiInit ==
    /\ ParetoIdle /\ SplomIdle /\ calls = 0
    /\ UiLayout /\ trigger = "initial"

SpecUI == UiInit /\ [][UiNext]_vars

-----------------------------------------------------------------------------
(* Properties of find_pareto_front *)

\* every objective's sense is minimize, given or by default
AllMinimize ==
    \A k \in 1..Len(objectives) :
        \/ objective_senses.none
        \/ objectives[k] \notin DOMAIN objective_senses.d
        \/ objective_senses.d[objectives[k]] = "minimize"

\* no objective column of the table holds a missing value
NoMissing ==
    \A k \in 1..Len(objectives) : \A i \in 1..obj_df.nrows :
        ~IsNaN(obj_df.col[objectives[k]][i])

\* raw value of row i (from 1) in the k-th objective
Raw(i, k) == obj_df.col[objectives[k]][i]

\* row j is <= row i in every objective and < in at least one (raw values)
RawDominates(j, i) ==
    /\ \A k \in 1..Len(objectives) : Raw(j, k) <= Raw(i, k)
    /\ \E k \in 1..Len(objectives) : Raw(j, k) < Raw(i, k)

Returned(i) == (i - 1) \in Range(pareto_indices)

PfDone == pf_pc = "done" /\ Len(objectives) > 0

\* C1: with all objectives minimized and no missing values, row i is returned
\* if and only if no other row is <= in every objective and < in at least one;
\* in particular a row equal to i in every objective does not exclude i.
C1_ParetoIffNotDominated ==
    (PfDone /\ AllMinimize /\ NoMissing) =>
        \A i \in 1..obj_df.nrows :
            Returned(i) <=> ~(\E j \in 1..obj_df.nrows : j # i /\ RawDominates(j, i))

\* a call that returned two rows equal in every objective and excluded a third
C1_Witness ==
    /\ PfDone /\ AllMinimize /\ NoMissing
    /\ Len(objectives) >= 2
    /\ \E i, j \in 1..obj_df.nrows :
          /\ i # j
          /\ \A k \in 1..Len(objectives) : Raw(i, k) = Raw(j, k)
          /\ Returned(i) /\ Returned(j)
    /\ \E i \in 1..obj_df.nrows : ~Returned(i)

\* the sense given for an objective is maximize (in any letter case)
IsMaximize(name) ==
    /\ ~objective_senses.none
    /\ name \in DOMAIN objective_senses.d
    /\ objective_senses.d[name] \in {"maximize", "MAXIMIZE", "Maximize"}

\* the table with the column of every maximize objective negated
NegatedTable ==
    [nrows |-> obj_df.nrows,
     col |-> [c \in DOMAIN obj_df.col |->
                 IF IsMaximize(c) /\ c \in Range(objectives)
                 THEN [i \in 1..obj_df.nrows |-> 0 - obj_df.col[c][i]]
                 ELSE obj_df.col[c]]]

ExplicitMinimize == SenseDict([n \in Range(objectives) |-> "minimize"])

MinMaxSenses ==
    SenseDict([n \in {"f1", "f2"} |-> IF n = "f2" THEN "maximize" ELSE "minimize"])

ToyCall(senses) ==
    /\ pf_pc = "done"
    /\ obj_df = ToyTable
    /\ objectives = <<"f1", "f2">>
    /\ objective_senses = senses

\* C2: the result for any sense mapping equals the all-minimize result on the
\* table whose maximize columns are negated; on the worked example with
\* f1 minimized and f2 maximized, row index 4 is excluded and the result
\* differs from the all-minimize result.
C2_MaximizeIsNegation ==
    /\ (PfDone /\ NoMissing) =>
          pareto_indices = find_pareto_front(objectives, NegatedTable, ExplicitMinimize)
    /\ ToyCall(MinMaxSenses) =>
          /\ 4 \notin Range(pareto_indices)
          /\ pareto_indices # find_pareto_front(objectives, obj_df, ExplicitMinimize)

\* the worked example was run with f1 minimized and f2 maximized
C2_Witness == ToyCall(MinMaxSenses) /\ pareto_indices = <<0>>

\* C3 as stated: on the worked example, all minimized, all 5 rows are returned
C3_AllFiveReturned ==
    (\E s \in SenseChoices : ToyCall(s) /\ AllMinimize) =>
        pareto_indices = <<0, 1, 2, 3, 4>>

\* C3, amended: on the worked example, all minimized, the rows returned are
\* 0, 3 and 4; rows 1 (2,3) and 2 (3,2) are dominated by row 4 (2,2).
C3_ToyFront ==
    (\E s \in SenseChoices : ToyCall(s) /\ AllMinimize) =>
        pareto_indices = <<0, 3, 4>>

\* the worked example was run with the senses given as minimize
C3_Witness ==
    /\ ToyCall(SenseDict([n \in {"f1", "f2", "f3"} |-> "minimize"]))
    /\ Len(pareto_indices) = 3

\* normalized value of row i (from 1) in the k-th objective
Norm(i, k) == NormalizedValues(objectives, obj_df, objective_senses)[i][k]

\* j dominates i with <= and < false on missing values
IeeeDominates(j, i) ==
    /\ \A k \in 1..Len(objectives) : FLe(Norm(j, k), Norm(i, k))
    /\ \E k \in 1..Len(objectives) : FLt(Norm(j, k), Norm(i, k))

HasMissing(i) == \E k \in 1..Len(objectives) : IsNaN(Raw(i, k))

\* C4: a row is excluded only by a row that is <= in every objective, no
\* comparison with a missing value counting as <= or <; so a row with a
\* missing value is never excluded and never excludes another row.
C4_MissingNeverDominates ==
    PfDone =>
        \A i \in 1..obj_df.nrows :
            /\ ~Returned(i) => \E j \in 1..obj_df.nrows : j # i /\ IeeeDominates(j, i)
            /\ HasMissing(i) => Returned(i)

PfEnded == pf_pc \in {"done", "raised"}

\* C12: with an empty objective list or a table without rows the call returns
\* the empty list and does not raise, whatever the sense mapping.
C12_EmptyInputGivesEmptyList ==
    (PfEnded /\ (objectives = <<>> \/ obj_df.nrows = 0)) =>
        pf_pc = "done" /\ pareto_indices = <<>>

\* a call with no objective on a table that has rows, and a call on a table
\* without rows whose objectives are no columns, both with a sense mapping
C12_Witness ==
    /\ pf_pc = "done" /\ pareto_indices = <<>>
    /\ SensesTruthy(objective_senses)
    /\ \/ objectives = <<>> /\ obj_df.nrows > 0
       \/ /\ obj_df.nrows = 0
          /\ \E k \in 1..Len(objectives) : objectives[k] \notin DOMAIN obj_df.col

\* C15: the returned list holds only positions in 0..n_rows-1 and is strictly
\* ascending (so no position occurs twice).
C15_AscendingRowPositions ==
    pf_pc = "done" =>
        /\ \A p \in 1..Len(pareto_indices) : pareto_indices[p] \in 0..(obj_df.nrows - 1)
        /\ \A p, q \in 1..Len(pareto_indices) :
              p < q => pareto_indices[p] < pareto_indices[q]

\* a call that returned several rows and excluded one between them
C15_Witness ==
    /\ pf_pc = "done" /\ Len(objectives) >= 2
    /\ Len(pareto_indices) >= 2
    /\ \E i \in 1..obj_df.nrows :
          /\ ~Returned(i)
          /\ pareto_indices[1] < i - 1
          /\ i - 1 < pareto_indices[Len(pareto_indices)]

\* the sense mapping with minimize written out for every objective it omits
\* (all of them when the mapping is None)
WithExplicitMinimize ==
    SenseDict([n \in Range(objectives) \cup DOMAIN objective_senses.d |->
                  IF n \in DOMAIN objective_senses.d
                  THEN objective_senses.d[n] ELSE "minimize"])

OmitsObjective ==
    \E k \in 1..Len(objectives) : objectives[k] \notin DOMAIN objective_senses.d

\* C16: a call whose sense mapping is None, empty or omits objectives returns
\* what the call returns with those objectives mapped to minimize.
C16_DefaultSenseIsMinimize ==
    (pf_pc = "done" /\ OmitsObjective) =>
        pareto_indices = find_pareto_front(objectives, obj_df, WithExplicitMinimize)

\* a call with f1 maximized and f2 omitted whose result is not the one f2
\* maximized would give
C16_Witness ==
    /\ pf_pc = "done" /\ objectives = <<"f1", "f2">>
    /\ objective_senses = SenseDict([n \in {"f1"} |-> "MAXIMIZE"])
    /\ pareto_indices #
          find_pareto_front(objectives, obj_df, SenseDict([n \in {"f1", "f2"} |-> "maximize"]))

-----------------------------------------------------------------------------
(* Properties of prepare_dataframe_for_splom *)

Returned_ok == pc = "done" /\ ret = "ok"

\* the labels of the dimensions, in order
DimLabels == [p \in 1..Len(dimensions) |-> dimensions[p].label]

\* C5: every dimension returned has as many values as the table has rows,
\* also when an array cell cannot be decoded.
C5_DimensionLength ==
    Returned_ok =>
        \A p \in 1..Len(dimensions) : Len(dimensions[p].values) = df.nrows

\* the loop over the cells of an array column has just processed row - 1
JustProcessed == pc = "rows" /\ row > 1

CurBase == processed_vars[idx].base

CurCell == df.col[CurBase][row - 1]

\* the cell just processed decodes to numbers that have a minimum and a maximum
CellHasMinMax == DecodeCell(CurCell).st = "arr" /\ NotNaNs(DecodeCell(CurCell).arr) # {}

DecodedMin == NanMin(DecodeCell(CurCell).arr)

DecodedMax == NanMax(DecodeCell(CurCell).arr)

\* the values recorded for the cell just processed
LastMin == min_values[Len(min_values)]

LastMax == max_values[Len(max_values)]

\* C6: a cell of row r that no decoding accepts gives NaN at position r of
\* both _min and _max, and no row is dropped or shifted.
C6_UndecodableCellGivesNaN ==
    (JustProcessed /\ DecodeCell(CurCell).st # "arr") =>
        /\ Len(min_values) = row - 1 /\ Len(max_values) = row - 1
        /\ IsNaN(LastMin) /\ IsNaN(LastMax)

\* the base variable is listed under constraints with a lower and an upper bound
HasBoundPair(base_var) ==
    /\ ~yaml_data.none
    /\ base_var \in DOMAIN yaml_data.constraints
    /\ ~yaml_data.constraints[base_var].isNone
    /\ DOMAIN yaml_data.constraints[base_var].d = {"lower", "upper"}

Lo(base_var) == yaml_data.constraints[base_var].d["lower"]

Hi(base_var) == yaml_data.constraints[base_var].d["upper"]

Outside(x, base_var) == x < Lo(base_var) \/ x > Hi(base_var)

\* C7: for a constraint variable with bound [lo, hi], the _min value of a row
\* is NaN when the decoded minimum is outside [lo, hi] and the decoded minimum
\* otherwise; the _max value likewise, independently of _min.
C7_BoundsFiltering ==
    (/\ JustProcessed /\ CellHasMinMax
     /\ get_category(yaml_data, CurBase) = "constraints"
     /\ HasBoundPair(CurBase)) =>
        /\ Len(min_values) >= 1 /\ Len(max_values) >= 1
        /\ LastMin = IF Outside(DecodedMin, CurBase) THEN NaN ELSE DecodedMin
        /\ LastMax = IF Outside(DecodedMax, CurBase) THEN NaN ELSE DecodedMax

\* a row whose minimum was discarded and whose maximum was kept
C7_Witness ==
    /\ JustProcessed /\ CellHasMinMax
    /\ get_category(yaml_data, CurBase) = "constraints"
    /\ HasBoundPair(CurBase)
    /\ IsNaN(LastMin) /\ LastMax = DecodedMax

\* C8: for a variable listed under constraints as a bare name, every row's
\* _min and _max are the decoded minimum and maximum.
C8_BareConstraintNotFiltered ==
    (/\ JustProcessed /\ CellHasMinMax
     /\ ~yaml_data.none
     /\ CurBase \in DOMAIN yaml_data.constraints
     /\ yaml_data.constraints[CurBase].isNone) =>
        /\ Len(min_values) >= 1 /\ Len(max_values) >= 1
        /\ LastMin = DecodedMin /\ LastMax = DecodedMax

\* C9: an array variable whose category is objectives, design_vars or null
\* has no min/max value replaced by NaN because of bounds.
C9_FilterOnlyForConstraintCategory ==
    (/\ JustProcessed /\ CellHasMinMax
     /\ get_category(yaml_data, CurBase) # "constraints") =>
        /\ Len(min_values) >= 1 /\ Len(max_values) >= 1
        /\ LastMin = DecodedMin /\ LastMax = DecodedMax

\* the tokens select base as an array (a _min or _max token) and not as a
\* regular variable
ArraySelection(base) ==
    /\ \E p \in 1..Len(selected_vars) : selected_vars[p] \in {Min(base), Max(base)}
    /\ \A p \in 1..Len(selected_vars) : selected_vars[p] # base

\* the labels of the dimensions labelled with one of the two names
LabelsAmong(names) == SelectSeq(DimLabels, LAMBDA l : l \in names)

\* C10: an array selection whose base column exists yields exactly two
\* dimensions for that base, {label}_min and {label}_max, whichever of the
\* two tokens are selected.
C10_ArrayYieldsTwoDimensions ==
    pc = "done" =>
        \A base \in Columns :
            ArraySelection(base) =>
                /\ ret = "ok"
                /\ LabelsAmong({Min(LastSegment(base)), Max(LastSegment(base))})
                      = <<Min(LastSegment(base)), Max(LastSegment(base))>>

\* what the call under way has given back
Outcome ==
    IF ret = "raised" THEN RaisedResult
    ELSE Result(ret, simplified_df, dimensions, variable_categories)

GroupOrder == <<"objectives", "constraints", "design_vars">>

\* the groups of the configuration that list the base name, by their rank
GroupsListing(base) ==
    { g \in 1..3 : ~yaml_data.none /\ base \in DOMAIN yaml_data[GroupOrder[g]] }

\* the first group, in the order objectives, constraints, design_vars, that
\* lists the base name; null when none does
FirstGroupListing(base) ==
    IF GroupsListing(base) = {} THEN "None"
    ELSE GroupOrder[CHOOSE g \in GroupsListing(base) :
                        \A h \in GroupsListing(base) : g <= h]

\* C11: the category recorded with a dimension is the first of objectives,
\* constraints, design_vars that lists its base name, and null when none does;
\* a base name in both objectives and design_vars is recorded as objectives.
C11_CategoryPrecedence ==
    [][ \A p \in (Len(dimensions) + 1)..Len(dimensions') :
            variable_categories'[dimensions'[p].label]
                = FirstGroupListing(processed_vars[idx].base) ]_vars

\* a is listed under objectives and design_vars and recorded as objectives,
\* b is listed under design_vars only
C11_Witness ==
    /\ Returned_ok /\ ~yaml_data.none
    /\ VarA \in DOMAIN yaml_data.objectives \cap DOMAIN yaml_data.design_vars
    /\ \E p \in 1..Len(dimensions) : dimensions[p].label = Min(VarA)
    /\ variable_categories[Min(VarA)] = "objectives"
    /\ \E p \in 1..Len(dimensions) : dimensions[p].label = VarB
    /\ variable_categories[VarB] = "design_vars"

\* the base name of a selection token
TokenBase(tok) ==
    IF EndsWith(tok, MinSuffix) \/ EndsWith(tok, MaxSuffix)
    THEN RsplitUnderscore(tok) ELSE tok

NoTokenResolves ==
    \A p \in 1..Len(selected_vars) : TokenBase(selected_vars[p]) \notin Columns

\* C13: the Empty result is returned exactly when no token's base name is a
\* column; otherwise at least one dimension is returned.
C13_EmptyIffNothingResolves ==
    pc = "done" =>
        /\ ret = "empty" <=> NoTokenResolves
        /\ ~NoTokenResolves => (ret = "ok" /\ Len(dimensions) >= 1)

\* the tokens whose base name is a column, in the order selected
PresentTokens == SelectSeq(selected_vars, LAMBDA t : TokenBase(t) \in Columns)

\* C14: a token whose base column is absent gives no dimension, no category
\* and no error: the call gives back what it gives back without that token.
C14_AbsentTokenSkipped ==
    pc = "done" => Outcome = prepare_dataframe_for_splom(df, PresentTokens, yaml_data)

\* a call with an absent and a present token that returned dimensions
C14_Witness ==
    /\ Returned_ok /\ Len(dimensions) >= 1
    /\ Len(PresentTokens) >= 1
    /\ Len(PresentTokens) < Len(selected_vars)

\* the lists that hold the same tokens in any order, one of them possibly twice
Rearrangements(sel) ==
    { s \in UNION { [1..n -> Range(sel)] : n \in 1..(Len(sel) + 1) } :
        Range(s) = Range(sel) }

\* C17: every list of the same tokens, in any order and with repetitions,
\* gives the same set of dimensions and the same category map.
C17_PresentationIndependent ==
    Returned_ok =>
        \A s \in Rearrangements(selected_vars) :
            LET r == prepare_dataframe_for_splom(df, s, yaml_data)
            IN /\ r.ret = "ok"
               /\ Range(r.dimensions) = Range(dimensions)
               /\ r.variable_categories = variable_categories

-----------------------------------------------------------------------------
(* Properties of repeated calls *)

-----------------------------------------------------------------------------
(* Properties of the dashboard callbacks *)

\* the configuration lists fewer than 2 objectives (none is loaded: it lists
\* no objective)
FewObjectivesConfigured ==
    yaml_df.none \/ Cardinality(DOMAIN yaml_df.objectives) < 2

\* the selected objectives whose simplified name is a column of the stored
\* simplified table
ResolvedObjectives ==
    ObjectiveColsSimplified(
        IF yaml_df.none THEN <<>> ELSE ObjectiveColsOriginal,
        IF simplified_df_store.none THEN {}
        ELSE FrameColumns(ReadJson(simplified_df_store.json)))

\* a step of update_splom: the pending input is consumed
UpdateSplomStep == trigger # "none" /\ trigger' = "none"

\* C19: when the configuration lists fewer than 2 objectives, a run of
\* update_splom does not call find_pareto_front and gives the figure no
\* Pareto indices, whether the Pareto toggle is on or off; and a download
\* made while fewer than 2 selected objectives resolve to columns of the
\* simplified table has no Pareto trace.
C19_NoParetoBelowTwoObjectives ==
    [][ /\ (UpdateSplomStep /\ FewObjectivesConfigured)
            => (~pf_called' /\ splom_figure'.pareto.none)
        /\ (download_splom_html /\ Len(ResolvedObjectives) < 2)
            => download'.pareto.none ]_vars

\* one objective is configured, the Pareto toggle is on, the matrix is
\* drawn without Pareto indices and the export was made without Pareto trace
C19_Witness ==
    /\ ~yaml_df.none /\ Cardinality(DOMAIN yaml_df.objectives) = 1
    /\ pareto_front_enabled
    /\ trigger = "none"
    /\ splom_figure.kind = "splom" /\ splom_figure.pareto.none /\ ~pf_called
    /\ Len(selected_channels) >= 2
    /\ download.status = "html" /\ download.pareto.none

\* no token is in the list twice
NoDuplicates(lst) == Cardinality(Range(lst)) = Len(lst)

\* C20: a click on the regular button of v adds the token v to the selection
\* when it is absent and removes it when it is present; the selection
\* reached from the empty one by any clicks holds no token twice; and two
\* consecutive clicks on the same regular button give back the same set.
C20_RegularButtonToggles ==
    /\ NoDuplicates(selected_channels)
    /\ \A v \in RegularButtons :
          /\ v \notin Range(selected_channels)
                => Range(RegularClick(selected_channels, v))
                       = Range(selected_channels) \cup {v}
          /\ v \in Range(selected_channels)
                => Range(RegularClick(selected_channels, v))
                       = Range(selected_channels) \ {v}
          /\ NoDuplicates(RegularClick(selected_channels, v))
          /\ Range(RegularClick(RegularClick(selected_channels, v), v))
                = Range(selected_channels)

\* after clicks on regular buttons and on an array button: a selected token
\* of a regular button next to another token, and a regular button whose
\* token is not selected
C20_Witness ==
    /\ trigger = "none"
    /\ Len(selected_channels) >= 2
    /\ \E v \in RegularButtons : v \in Range(selected_channels)
    /\ \E v \in RegularButtons : v \notin Range(selected_channels)
    /\ \E v \in ArrayButtons : Min(v) \in Range(selected_channels)

\* both tokens of the array variable v are selected
BothSelected(lst, v) == Min(v) \in Range(lst) /\ Max(v) \in Range(lst)

\* a step of handle_channels_selection
SelectionStep == trigger = "none" /\ trigger' = "selected-channels"

\* C21: after a click on the array button of v both v_min and v_max are
\* selected when they were not both selected before, and neither is when both
\* were; a newly added pair is never selected together with the plain token v.
C21_ArrayButtonPair ==
    [][ \A v \in ArrayButtons :
          (SelectionStep /\ selected_channels' = ArrayClick(selected_channels, v))
          => /\ ~BothSelected(selected_channels, v)
                   => /\ BothSelected(selected_channels', v)
                      /\ v \notin Range(selected_channels')
             /\ BothSelected(selected_channels, v)
                   => /\ Min(v) \notin Range(selected_channels')
                      /\ Max(v) \notin Range(selected_channels') ]_vars

\* the array button was clicked while other tokens were selected: the pair
\* is in the selection, waiting for update_splom
C21_Witness ==
    /\ trigger = "selected-channels"
    /\ \E v \in ArrayButtons :
          /\ BothSelected(selected_channels, v)
          /\ v \notin Range(selected_channels)
          /\ selected_channels[Len(selected_channels)] = Max(v)
    /\ Len(selected_channels) >= 3

\* update_splom runs because a point of the plot was clicked
ClickStep == UpdateSplomStep /\ trigger = "splom" /\ ~click_data.none

\* the row of the clicked point
ClickedRow == PointRow(splom_figure, click_data)

\* C22: a click on a point of the data trace or of the highlight trace that
\* stands for the highlighted iteration leaves no iteration highlighted, and
\* a click on a point of another row stores that row.
C22_ClickTogglesHighlight ==
    [][ (ClickStep /\ click_data.curveNumber \in {"main", "highlight"})
        => IF ClickedRow = selected_iteration
           THEN selected_iteration' = NoIteration
           ELSE selected_iteration' = ClickedRow ]_vars

\* the tokens of the variable v
TokensOf(v) == {v, Min(v), Max(v)}

\* C23: a click on the array button of v changes only the tokens of v: a
\* selected token of another variable is still selected after the click.
C23_ArrayClickKeepsOtherTokens ==
    [][ \A v \in ArrayButtons :
          (SelectionStep /\ selected_channels' = ArrayClick(selected_channels, v))
          => \A tok \in Range(selected_channels) \ TokensOf(v) :
                tok \in Range(selected_channels') ]_vars

\* the iteration a stored value highlights: the empty string of the layout
\* highlights none, as None does
Highlighted(stored) == IF stored = EmptyString THEN NoIteration ELSE stored

\* C24: when update_splom runs for another reason than a click on a point or
\* on Clear Highlighting, the stored highlighted iteration is afterwards what
\* it was before.
C24_HighlightKeptByOtherTriggers ==
    [][ (UpdateSplomStep /\ trigger \notin {"splom", "clear-highlight-btn"})
        => Highlighted(selected_iteration') = Highlighted(selected_iteration) ]_vars

\* C25: a click on a point of the data trace or of the Pareto trace stores
\* the table row that the point stands for; for the k-th point of the Pareto
\* trace that row is pareto_indices[k].
C25_ClickHighlightsClickedRow ==
    [][ (ClickStep /\ click_data.curveNumber \in {"main", "pareto"})
        => selected_iteration' = ClickedRow ]_vars

\* the rows of a Pareto trace; no trace, no rows
ParetoPoints(pareto) == IF pareto.none THEN {} ELSE Range(pareto.list)

\* the Pareto rows the live matrix shows
LivePareto ==
    IF pareto_front_enabled /\ HasParetoTrace(splom_figure)
    THEN ParetoPoints(splom_figure.pareto) ELSE {}

\* C26: the export made while the matrix is shown has the Pareto rows of the
\* live figure: the same row indices when the Pareto front is enabled, and
\* no Pareto trace when it is not.
C26_ExportParetoAsLive ==
    [][ (download_splom_html /\ splom_figure.kind = "splom"
            /\ download'.status = "html")
        => ParetoPoints(download'.pareto) = LivePareto ]_vars

\* C28: with a table loaded, a click on Download Dashboard ends with no
\* download or with the HTML file, never with an error; so too when fewer
\* than 2 variables are selected and no dimensions are stored.
C28_DownloadNeverRaises ==
    [][ (download_splom_html /\ ~csv_df.none) => download'.status # "error" ]_vars

-----------------------------------------------------------------------------
(* Further properties of the two functions *)

\* the selected tokens that are names of columns of the table
ColumnTokens == Range(selected_vars) \cap Columns

\* C29: when the call returns, every selected token that is the name of a
\* column has a Dimension with that column's values, labelled with the last
\* segment of the name; so too for a column whose name ends in _min or _max.
C29_ColumnTokenYieldsDimension ==
    (pc = "done" /\ ret # "raised")
        => \A tok \in ColumnTokens :
              \E p \in 1..Len(dimensions) :
                  /\ dimensions[p].label = LastSegment(tok)
                  /\ dimensions[p].values = df.col[tok]

\* C27: for a table with at least one row and a list of at least one
\* objective, find_pareto_front returns at least one row index, also with
\* missing values and with three objectives.
C27_FrontNotEmpty ==
    (pf_pc = "done" /\ Len(objectives) >= 1 /\ ~DfEmpty(obj_df))
        => Len(pareto_indices) >= 1

\* the columns of the simplified table but sample_id
DataColumns == SelectSeq(simplified_df.cols, LAMBDA c : c.name # SampleId)

\* C30: the three results agree: the labels of the Dimensions are pairwise
\* distinct, the category map has one entry per Dimension, and the
\* simplified table has, next to sample_id, one column per Dimension with
\* that Dimension's label and values; so too when two selected base names
\* end in the same segment.
C30_OutputsAgree ==
    Returned_ok =>
        /\ NoDuplicates(DimLabels)
        /\ DOMAIN variable_categories = Range(DimLabels)
        /\ Len(DataColumns) = Len(dimensions)
        /\ \A p \in 1..Len(dimensions) :
              \E q \in 1..Len(DataColumns) :
                  /\ DataColumns[q].name = dimensions[p].label
                  /\ DataColumns[q].values = dimensions[p].values

====
